---- MODULE Spec2Model ----
(***************************************************************************)
(* A state-machine model of the store of hendiko/vuex: the module tree     *)
(* (module.js, module-collection.js) and the Store class with its          *)
(* installation, commit / dispatch and dynamic registration code.          *)
(*                                                                         *)
(* Strings are sequences of tokens, so that the concatenation              *)
(* namespace + key of the source is modelled by \o and two different       *)
(* (namespace, key) pairs can yield the same fully-qualified type.         *)
(* A module path is a sequence of keys.  The tree is kept as a function    *)
(* from the paths of its nodes to the nodes; the state tree is kept as a   *)
(* function from the paths that hold a slice to the slice's own fields.    *)
(***************************************************************************)
EXTENDS Integers, Sequences, FiniteSets, TLC

VARIABLES
    _committing,          \* Store._committing
    _mutations,           \* Store._mutations: type -> sequence of wrapped handlers
    _actions,             \* Store._actions: type -> sequence of wrapped handlers
    _wrappedGetters,      \* Store._wrappedGetters: type -> sequence of (one) getter
    _modulesNamespaceMap, \* Store._modulesNamespaceMap: namespace -> module id
    _modules,             \* Store._modules: path -> Module (the ModuleCollection)
    state,                \* Store.state: path -> state slice
    _subscribers,         \* Store._subscribers
    _actionSubscribers,   \* Store._actionSubscribers
    strict,               \* Store.strict
    _vm,                  \* Store._vm: whether the strict-mode watcher is on it
    promises,             \* the futures returned by dispatch, in call order
    nextId,               \* identity given to the next Module constructed
    trace,                \* calls made to user code by the last operation
    last,                 \* the last operation and its arguments
    used                  \* how many calls of the store's methods have been made

vars == << _committing, _mutations, _actions, _wrappedGetters,
           _modulesNamespaceMap, _modules, state, _subscribers,
           _actionSubscribers, strict, _vm, promises, nextId, trace, last, used >>

(***************************************************************************)
(* Bounds of the model.                                                    *)
(***************************************************************************)
MaxCalls == 3      \* calls made to the store's methods after construction

(***************************************************************************)
(* Paths and strings.                                                      *)
(***************************************************************************)
Keys == {"a", "b"}
Root == <<>>
Sep == "/"

Parent(path) == SubSeq(path, 1, Len(path) - 1)
LastKey(path) == path[Len(path)]
IsPrefix(p, q) == Len(p) <= Len(q) /\ SubSeq(q, 1, Len(p)) = p
IsStrictPrefix(p, q) == Len(p) < Len(q) /\ IsPrefix(p, q)
RegisterPaths == {<<"a">>, <<"b">>, <<"a", "b">>}

Contains(seq, x) == \E i \in 1..Len(seq) : seq[i] = x
IndexOf(seq, x) ==
    IF Contains(seq, x) THEN CHOOSE i \in 1..Len(seq) :
                                 seq[i] = x /\ \A j \in 1..(i - 1) : seq[j] # x
                        ELSE 0
RemoveAt(seq, i) == SubSeq(seq, 1, i - 1) \o SubSeq(seq, i + 1, Len(seq))

EmptyTable == << >>
Put(table, key, val) == (key :> val) @@ table
Drop(table, keys) == [k \in (DOMAIN table) \ keys |-> table[k]]

(***************************************************************************)
(* Raw module configurations.  A handler map of a configuration is either  *)
(* absent or an ordered list of entries (the insertion order of the        *)
(* object's keys).  A handler is named by the user function it is.         *)
(***************************************************************************)
NoMap == [has |-> FALSE, ents |-> << >>]
Map(entries) == [has |-> TRUE, ents |-> entries]
M(key, fn) == [key |-> key, fn |-> fn, root |-> FALSE]
RootAction(key, fn) == [key |-> key, fn |-> fn, root |-> TRUE]

Raw(ns, st, muts, acts, gets, mods) ==
    [namespaced |-> ns, state |-> st, mutations |-> muts, actions |-> acts,
     getters |-> gets, modules |-> mods]
Child(key, raw) == [key |-> key, raw |-> raw]

(***************************************************************************)
(* module.js: class Module.                                                *)
(***************************************************************************)
NoContext == [set |-> FALSE, namespace |-> << >>, path |-> << >>]

\* constructor (rawModule, runtime); id stands for the object's identity
Module(rawModule, runtime, id) ==
    [id |-> id,
     runtime |-> runtime,
     _rawModule |-> [namespaced |-> rawModule.namespaced,
                     mutations |-> rawModule.mutations,
                     actions |-> rawModule.actions,
                     getters |-> rawModule.getters],
     state |-> rawModule.state,
     _children |-> << >>,
     context |-> NoContext]

\* get namespaced ()
Namespaced(module) == module._rawModule.namespaced

\* getChild (key), on the module at parentPath
HasChild(mods, parentPath, key) == Append(parentPath, key) \in DOMAIN mods

\* addChild (key, module): this._children[key] = module.  An existing key
\* keeps its place in the enumeration order; what hung below the old child
\* is no longer reachable from the tree.
AddChild(mods, path, module) ==
    LET parent == Parent(path)
        key == LastKey(path)
        kept == Drop(mods, {q \in DOMAIN mods : IsPrefix(path, q)})
        kids == mods[parent]._children
        kids2 == IF Contains(kids, key) THEN kids ELSE Append(kids, key)
    IN  Put([kept EXCEPT ![parent]._children = kids2], path, module)

\* removeChild (key): delete this._children[key]
RemoveChild(mods, path) ==
    LET parent == Parent(path)
        key == LastKey(path)
        kept == Drop(mods, {q \in DOMAIN mods : IsPrefix(path, q)})
        kids == mods[parent]._children
    IN  IF path \in DOMAIN mods
        THEN [kept EXCEPT ![parent]._children = RemoveAt(kids, IndexOf(kids, key))]
        ELSE mods

\* ModuleUpdate without the tests for the maps the new configuration lacks
ModuleUpdateReplacingAll(module, rawModule) ==
    [module EXCEPT !._rawModule =
        [namespaced |-> rawModule.namespaced, mutations |-> rawModule.mutations,
         actions |-> rawModule.actions, getters |-> rawModule.getters]]

\* update (rawModule)
ModuleUpdate(module, rawModule) ==
    LET r0 == module._rawModule
        r1 == [r0 EXCEPT !.namespaced = rawModule.namespaced]
        r2 == IF rawModule.actions.has
              THEN [r1 EXCEPT !.actions = rawModule.actions] ELSE r1
        r3 == IF rawModule.mutations.has
              THEN [r2 EXCEPT !.mutations = rawModule.mutations] ELSE r2
        r4 == IF rawModule.getters.has
              THEN [r3 EXCEPT !.getters = rawModule.getters] ELSE r3
    IN  [module EXCEPT !._rawModule = r4]

(***************************************************************************)
(* module-collection.js: class ModuleCollection.  A collection value is    *)
(* the function from the paths of the tree to its modules.                 *)
(***************************************************************************)
\* get (path): path.reduce((module, key) => module.getChild(key), this.root);
\* the walk follows the keys each node holds in _children
Undefined == [id |-> 0]
RECURSIVE Reaches(_, _, _)
Reaches(mods, path, n) ==
    IF n = 0 THEN TRUE
    ELSE /\ Reaches(mods, path, n - 1)
         /\ Contains(mods[SubSeq(path, 1, n - 1)]._children, path[n])
Get(mods, path) ==
    IF Reaches(mods, path, Len(path)) THEN mods[path] ELSE Undefined

\* getNamespace (path)
RECURSIVE NamespaceUpTo(_, _, _)
NamespaceUpTo(mods, path, n) ==
    IF n = 0 THEN << >>
    ELSE LET module == mods[SubSeq(path, 1, n)]
         IN  NamespaceUpTo(mods, path, n - 1)
                 \o (IF Namespaced(module) THEN <<path[n], Sep>> ELSE << >>)
\* getNamespace that adds key + "/" for every node, namespaced or not
NamespaceOfEveryKey(mods, path) ==
    [i \in 1..(2 * Len(path)) |-> IF i % 2 = 1 THEN path[(i + 1) \div 2] ELSE Sep]

GetNamespace(mods, path) == NamespaceUpTo(mods, path, Len(path))

\* functionAssert, objectAssert: a value of a handler map that is not a
\* function (nor an object with a handler function) is named NotAFunction
NotAFunction == "notAFunction"
IsFunction(fn) == fn # NotAFunction

\* function assertRawModule (path, rawModule): TRUE when no assertion fails
AssertRawModule(rawModule) ==
    /\ \A i \in 1..Len(rawModule.getters.ents) : IsFunction(rawModule.getters.ents[i].fn)
    /\ \A i \in 1..Len(rawModule.mutations.ents) :
           IsFunction(rawModule.mutations.ents[i].fn)
    /\ \A i \in 1..Len(rawModule.actions.ents) : IsFunction(rawModule.actions.ents[i].fn)

\* register (path, rawModule, runtime); T = [mods, nextId, thrown], thrown set
\* when an assertion of assertRawModule failed
RECURSIVE Register(_, _, _, _), RegisterNested(_, _, _, _, _)
Register(T, path, rawModule, runtime) ==
    LET newModule == Module(rawModule, runtime, T.nextId)
        mods1 == IF path = Root THEN (Root :> newModule)
                 ELSE AddChild(T.mods, path, newModule)
        T1 == [mods |-> mods1, nextId |-> T.nextId + 1, thrown |-> FALSE]
    IN  IF ~ AssertRawModule(rawModule) THEN [T EXCEPT !.thrown = TRUE]
        ELSE RegisterNested(T1, path, rawModule.modules, 1, runtime)
RegisterNested(T, path, kids, i, runtime) ==
    IF i > Len(kids) \/ T.thrown THEN T
    ELSE RegisterNested(Register(T, Append(path, kids[i].key), kids[i].raw, runtime),
                        path, kids, i + 1, runtime)

\* unregister (path)
Unregister(mods, path) ==
    IF ~ mods[path].runtime THEN mods ELSE RemoveChild(mods, path)

\* function update (path, targetModule, newModule)
RECURSIVE Update(_, _, _), UpdateNested(_, _, _, _)
Update(mods, path, newModule) ==
    UpdateNested([mods EXCEPT ![path] = ModuleUpdate(@, newModule)],
                 path, newModule.modules, 1)
UpdateNested(mods, path, kids, i) ==
    IF i > Len(kids) THEN mods
    ELSE IF ~ HasChild(mods, path, kids[i].key) THEN mods
    ELSE UpdateNested(Update(mods, Append(path, kids[i].key), kids[i].raw),
                      path, kids, i + 1)

(***************************************************************************)
(* The user code the store calls.  A mutation handler is (s, p) =>         *)
(* { s.count = p }: it raises a TypeError when its local state is          *)
(* undefined.  The subscriber "s1" calls its own unsubscribe function when *)
(* it is notified; "s2" only observes.  The action subscriber "h1" is      *)
(* { before } with a before hook that throws; "h2" is { before, after }.   *)
(* An action handler whose name ends in "Sync" returns a plain value, any  *)
(* other returns a future that is settled later.                           *)
(* A call is logged with the function called, the module that owns it      *)
(* (for a hook: the number of the dispatch it is called for), its local    *)
(* path and the payload.                                                   *)
(***************************************************************************)
Payloads == {1, 2}          \* the payloads of a global commit
OtherPayloads == {1}        \* the payloads of the other calls
PreserveStateOptions == {FALSE}
Subscribers == {"s1", "s2"}
UnsubscribesItself(sub) == sub = "s1"
ActionSubscribers == {"h1", "h2"}
HasBefore(sub) == sub \in {"h1", "h2"}
HasAfter(sub) == sub = "h2"
HookThrows(sub) == sub = "h1"
ReturnsValue(fn) == fn \in {"rootSync", "bSync"}
\* "outerInc" is (s, p) => { this.commit('inc', p); s.count = p }
Commits(fn) == IF fn = "outerInc" THEN <<"inc">> ELSE << >>
\* "badInc" is () => { throw new Error() }
HandlerThrows(fn) == fn = "badInc"
\* "aGo" is ({ commit, state }, p) => { commit('inc', state.count + p);
\* return new Promise(...) }
ActionCommits(fn) == IF fn = "aGo" THEN <<"inc">> ELSE << >>

Call(ev, fn, owner, path, payload) ==
    [ev |-> ev, fn |-> fn, owner |-> owner, path |-> path, payload |-> payload]

(***************************************************************************)
(* The store as one value, for the code that runs inside one operation.    *)
(* thrown is set when an exception leaves the code that was running.       *)
(***************************************************************************)
Store ==
    [_committing |-> _committing, _mutations |-> _mutations, _actions |-> _actions,
     _wrappedGetters |-> _wrappedGetters,
     _modulesNamespaceMap |-> _modulesNamespaceMap, _modules |-> _modules,
     state |-> state, _subscribers |-> _subscribers,
     _actionSubscribers |-> _actionSubscribers, strict |-> strict, _vm |-> _vm,
     promises |-> promises,
     nextId |-> nextId, trace |-> << >>, thrown |-> FALSE]

Throw(S) == [S EXCEPT !.thrown = TRUE]
Log(S, call) == [S EXCEPT !.trace = Append(@, call)]

\* getNestedState (state, path): undefined when the slice is missing; a
\* TypeError when a slice on the way to it is missing
NestedStateThrows(st, path) ==
    \E n \in 1..(Len(path) - 1) : SubSeq(path, 1, n) \notin DOMAIN st
NestedStateDefined(st, path) == path \in DOMAIN st

\* Vue.set (parentState, moduleName, value): the object at path is replaced,
\* with everything that hung below it
VueSet(st, path, value) ==
    Put(Drop(st, {q \in DOMAIN st : IsPrefix(path, q)}), path, value)

\* Vue.delete (parentState, key): nothing happens when the key is not there
VueDelete(st, path) == Drop(st, {q \in DOMAIN st : IsPrefix(path, q)})

\* the watcher of enableStrictMode: deep and sync, so it runs at every write
\* to the state, and reports the write when the flag is not set
Watch(S) ==
    IF S._vm.watch /\ ~ S._committing
    THEN Log(S, Call("violation", "", 0, Root, 0))
    ELSE S

\* _withCommit (fn), entered: the flag is set, its old value is returned by
\* WithCommitExit unless fn threw
WithCommitEnter(S) == [S EXCEPT !._committing = TRUE]

\* WithCommitExit that clears the flag instead of restoring the saved value
WithCommitExitClearing(S, committing) ==
    IF S.thrown THEN S ELSE [S EXCEPT !._committing = FALSE]

WithCommitExit(S, committing) ==
    IF S.thrown THEN S ELSE [S EXCEPT !._committing = committing]

\* function registerMutation (store, type, handler, local)
Wrapped(fn, local, owner) ==
    [fn |-> fn, namespace |-> local.namespace, path |-> local.path, owner |-> owner]
RegisterMutation(S, type, handler, local, owner) ==
    LET entry == IF type \in DOMAIN S._mutations THEN S._mutations[type] ELSE << >>
    IN  [S EXCEPT !._mutations = Put(@, type, Append(entry, Wrapped(handler, local, owner)))]

\* function registerAction (store, type, handler, local)
RegisterAction(S, type, handler, local, owner) ==
    LET entry == IF type \in DOMAIN S._actions THEN S._actions[type] ELSE << >>
    IN  [S EXCEPT !._actions = Put(@, type, Append(entry, Wrapped(handler, local, owner)))]

\* RegisterGetter without the test for a getter that is already there
RegisterGetterOverwriting(S, type, rawGetter, local, owner) ==
    [S EXCEPT !._wrappedGetters = Put(@, type, Wrapped(rawGetter, local, owner))]

\* function registerGetter (store, type, rawGetter, local)
RegisterGetter(S, type, rawGetter, local, owner) ==
    IF type \in DOMAIN S._wrappedGetters THEN S
    ELSE [S EXCEPT !._wrappedGetters = Put(@, type, Wrapped(rawGetter, local, owner))]

\* function makeLocalContext (store, namespace, path): what the closures keep
MakeLocalContext(namespace, path) ==
    [set |-> TRUE, namespace |-> namespace, path |-> path]

RECURSIVE ForEachMutation(_, _, _, _, _), ForEachAction(_, _, _, _, _),
          ForEachGetter(_, _, _, _, _), ForEachActionPrefixed(_, _, _, _, _)
ForEachMutation(S, ents, i, local, owner) ==
    IF i > Len(ents) THEN S
    ELSE ForEachMutation(
             RegisterMutation(S, local.namespace \o ents[i].key, ents[i].fn, local, owner),
             ents, i + 1, local, owner)
\* ForEachAction that ignores the root flag of an action
ForEachActionPrefixed(S, ents, i, local, owner) ==
    IF i > Len(ents) THEN S
    ELSE ForEachActionPrefixed(
             RegisterAction(S, local.namespace \o ents[i].key, ents[i].fn, local, owner),
             ents, i + 1, local, owner)

ForEachAction(S, ents, i, local, owner) ==
    IF i > Len(ents) THEN S
    ELSE LET type == IF ents[i].root THEN ents[i].key
                     ELSE local.namespace \o ents[i].key
         IN  ForEachAction(RegisterAction(S, type, ents[i].fn, local, owner),
                           ents, i + 1, local, owner)
ForEachGetter(S, ents, i, local, owner) ==
    IF i > Len(ents) THEN S
    ELSE ForEachGetter(
             RegisterGetter(S, local.namespace \o ents[i].key, ents[i].fn, local, owner),
             ents, i + 1, local, owner)

\* installModule, lines 380-387: attach the module's state to its parent's
AttachState(S, path, module) ==
    IF NestedStateThrows(S.state, Parent(path)) THEN Throw(S)
    ELSE IF ~ NestedStateDefined(S.state, Parent(path))
         THEN Throw([S EXCEPT !._committing = TRUE])
         ELSE WithCommitExit(
                  Watch([WithCommitEnter(S) EXCEPT
                             !.state = VueSet(@, path, [count |-> module.state])]),
                  S._committing)

\* function installModule (store, rootState, path, module, hot)
RECURSIVE InstallModule(_, _, _), InstallNested(_, _, _, _, _)
InstallModule(S, path, hot) ==
    LET module == Get(S._modules, path)
        namespace == GetNamespace(S._modules, path)
        S1 == IF Namespaced(module)
              THEN [S EXCEPT !._modulesNamespaceMap = Put(@, namespace, module.id)]
              ELSE S
        S2 == IF path # Root /\ ~ hot THEN AttachState(S1, path, module) ELSE S1
        local == MakeLocalContext(namespace, path)
        S3 == [S2 EXCEPT !._modules[path].context = local]
        raw == module._rawModule
        S4 == ForEachMutation(S3, raw.mutations.ents, 1, local, module.id)
        S5 == ForEachAction(S4, raw.actions.ents, 1, local, module.id)
        S6 == ForEachGetter(S5, raw.getters.ents, 1, local, module.id)
    IN  IF S2.thrown THEN S2
        ELSE InstallNested(S6, path, module._children, 1, hot)
InstallNested(S, path, kids, i, hot) ==
    IF i > Len(kids) \/ S.thrown THEN S
    ELSE InstallNested(InstallModule(S, Append(path, kids[i]), hot),
                       path, kids, i + 1, hot)

\* function resetStoreVM (store, state, hot): a new vm observes the state and
\* gets the watcher when the store is strict; with hot the old vm's state is
\* set to null inside _withCommit, which the old vm's watcher sees
ResetStoreVM(S, hot, hasOldVm) ==
    LET S1 == [S EXCEPT !._vm = [watch |-> S.strict]]
    IN  IF hasOldVm /\ hot
        THEN LET old == [WithCommitEnter(S1) EXCEPT !._vm = S._vm]
             IN  [WithCommitExit(Watch(old), S1._committing) EXCEPT !._vm = S1._vm]
        ELSE S1

\* function resetStore (store, hot)
ResetStore(S, hot) ==
    LET S1 == InstallModule([S EXCEPT !._actions = EmptyTable,
                                      !._mutations = EmptyTable,
                                      !._wrappedGetters = EmptyTable,
                                      !._modulesNamespaceMap = EmptyTable],
                            Root, TRUE)
    IN  ResetStoreVM(S1, hot, TRUE)
(***************************************************************************)
(* Store.commit                                                            *)
(***************************************************************************)
\* WrappedMutationHandler handing the root state to the handler
WrappedMutationHandlerOnRootState(S, w, payload) ==
    LET S1 == Log(S, Call("mutation", w.fn, w.owner, w.path, payload))
    IN  [S1 EXCEPT !.state[Root].count = payload]

\* wrappedMutationHandler (payload): handler.call(store, local.state, payload).
\* The handler may commit another type before it writes its own state.
RECURSIVE Commit(_, _, _)
WrappedMutationHandler(S, w, payload) ==
    IF NestedStateThrows(S.state, w.path) THEN Throw(S)
    ELSE LET S1 == Log(S, Call("mutation", w.fn, w.owner, w.path, payload))
             S2 == IF Commits(w.fn) # << >> THEN Commit(S1, Commits(w.fn), payload)
                   ELSE S1
         IN  IF HandlerThrows(w.fn) THEN Throw(S1)
             ELSE IF S2.thrown THEN S2
             ELSE IF ~ NestedStateDefined(S2.state, w.path) THEN Throw(S2)
             ELSE Watch([S2 EXCEPT !.state[w.path].count = payload])

\* entry.forEach(function commitIterator (handler) { handler(payload) })
RECURSIVE CommitIterator(_, _, _, _)
CommitIterator(S, entry, i, payload) ==
    IF i > Len(entry) \/ S.thrown THEN S
    ELSE CommitIterator(WrappedMutationHandler(S, entry[i], payload),
                        entry, i + 1, payload)

\* sub(mutation, this.state), for the subscribers of the model
CallSubscriber(S, sub, payload) ==
    LET S1 == Log(S, Call("subscriber", sub, 0, Root, payload))
    IN  IF UnsubscribesItself(sub) /\ Contains(S1._subscribers, sub)
        THEN [S1 EXCEPT !._subscribers = RemoveAt(@, IndexOf(@, sub))]
        ELSE S1

\* this._subscribers.forEach(sub => sub(mutation, this.state)): forEach visits
\* the indices below the length the array had when it started, and skips an
\* index the array no longer has
RECURSIVE NotifySubscribers(_, _, _, _)
NotifySubscribers(S, i, len, payload) ==
    IF i > len \/ i > Len(S._subscribers) \/ S.thrown THEN S
    ELSE NotifySubscribers(CallSubscriber(S, S._subscribers[i], payload),
                           i + 1, len, payload)

\* Commit without the early return for an unknown type
CommitUnknownAsEmpty(S, type, payload) ==
    LET entry == IF type \in DOMAIN S._mutations THEN S._mutations[type] ELSE << >>
        committing == S._committing
        S1 == CommitIterator([S EXCEPT !._committing = TRUE], entry, 1, payload)
        S2 == WithCommitExit(S1, committing)
    IN  NotifySubscribers(S2, 1, Len(S2._subscribers), payload)

\* commit (_type, _payload, _options)
Commit(S, type, payload) ==
    IF type \notin DOMAIN S._mutations THEN S
    ELSE LET entry == S._mutations[type]
             committing == S._committing
             S1 == CommitIterator([S EXCEPT !._committing = TRUE], entry, 1, payload)
             S2 == WithCommitExit(S1, committing)
         IN  NotifySubscribers(S2, 1, Len(S2._subscribers), payload)

(***************************************************************************)
(* makeLocalContext: the commit of a module's local context                *)
(***************************************************************************)
\* LocalCommit that prefixes the namespace whatever the root option says
LocalCommitAlwaysPrefixed(S, local, type, payload, root) ==
    IF local.namespace = << >> THEN Commit(S, type, payload)
    ELSE IF (local.namespace \o type) \notin DOMAIN S._mutations THEN S
    ELSE Commit(S, local.namespace \o type, payload)

LocalCommit(S, local, type, payload, root) ==
    IF local.namespace = << >> THEN Commit(S, type, payload)
    ELSE IF ~ root /\ (local.namespace \o type) \notin DOMAIN S._mutations THEN S
    ELSE Commit(S, IF root THEN type ELSE local.namespace \o type, payload)

(***************************************************************************)
(* Store.dispatch and the futures it returns.  A future of the model is    *)
(* [type, payload, handlers, st, value]: handlers are the futures of the   *)
(* wrapped handlers, st and value those of the future dispatch returned.   *)
(***************************************************************************)
\* wrappedActionHandler (payload, cb)
WrappedActionHandler(w) ==
    IF ReturnsValue(w.fn) THEN [st |-> "resolved", value |-> w.fn]
    ELSE [st |-> "pending", value |-> w.fn]

\* the before hooks, lines 153-162
RECURSIVE BeforeHooks(_, _, _, _, _)
BeforeHooks(S, subs, i, d, payload) ==
    IF i > Len(subs) THEN S
    ELSE LET S1 == Log(S, Call("before", subs[i], d, Root, payload))
         IN  IF HookThrows(subs[i]) THEN S1
             ELSE BeforeHooks(S1, subs, i + 1, d, payload)

\* the after hooks, lines 172-181
RECURSIVE AfterHooks(_, _, _, _, _)
AfterHooks(S, subs, i, d, payload) ==
    IF i > Len(subs) THEN S
    ELSE AfterHooks(Log(S, Call("after", subs[i], d, Root, payload)),
                    subs, i + 1, d, payload)

\* wrappedActionHandler (payload, cb), up to the handler's return: the context
\* object is built from the module's local context, reading local.state, and
\* the handler runs with it
CallActionHandler(S, w, payload) ==
    IF NestedStateThrows(S.state, w.path) THEN Throw(S)
    ELSE LET S1 == Log(S, Call("action", w.fn, w.owner, w.path, payload))
             local == MakeLocalContext(w.namespace, w.path)
         IN  IF ActionCommits(w.fn) = << >> THEN S1
             ELSE IF ~ NestedStateDefined(S1.state, w.path) THEN Throw(S1)
             ELSE LocalCommit(S1, local, ActionCommits(w.fn),
                              S1.state[w.path].count + payload, FALSE)

RECURSIVE LogHandlers(_, _, _, _)
LogHandlers(S, entry, i, payload) ==
    IF i > Len(entry) \/ S.thrown THEN S
    ELSE LogHandlers(CallActionHandler(S, entry[i], payload), entry, i + 1, payload)

\* dispatch (_type, _payload), up to the return
Dispatch(S, type, payload) ==
    IF type \notin DOMAIN S._actions THEN S
    ELSE LET entry == S._actions[type]
             d == Len(S.promises) + 1
             S1 == BeforeHooks(S, SelectSeq(S._actionSubscribers, HasBefore), 1, d,
                               payload)
             S2 == LogHandlers(S1, entry, 1, payload)
             future == [type |-> type, payload |-> payload,
                        handlers |-> [i \in 1..Len(entry) |-> WrappedActionHandler(entry[i])],
                        st |-> "pending", value |-> << >>]
         IN  IF S2.thrown THEN S2 ELSE [S2 EXCEPT !.promises = Append(@, future)]

\* Result with the join dropped: the first handler's future alone decides
ResultOfFirstHandler(handlers) ==
    [st |-> handlers[1].st, value |-> <<handlers[1].value>>]

\* entry.length > 1 ? Promise.all(entry.map(...)) : entry[0](payload)
Result(handlers) ==
    IF Len(handlers) > 1
    THEN IF \E i \in 1..Len(handlers) : handlers[i].st = "rejected"
         THEN [st |-> "rejected", value |-> << >>]
         ELSE IF \A i \in 1..Len(handlers) : handlers[i].st = "resolved"
              THEN [st |-> "resolved",
                    value |-> [i \in 1..Len(handlers) |-> handlers[i].value]]
              ELSE [st |-> "pending", value |-> << >>]
    ELSE [st |-> handlers[1].st, value |-> <<handlers[1].value>>]

\* Then whose reaction returns nothing instead of res
ThenReturningNothing(S, d) ==
    LET future == S.promises[d]
        result == Result(future.handlers)
    IN  IF result.st = "resolved"
        THEN LET S1 == AfterHooks(S, SelectSeq(S._actionSubscribers, HasAfter), 1, d,
                                  future.payload)
             IN  [S1 EXCEPT !.promises[d].st = "resolved"]
        ELSE [S EXCEPT !.promises[d].st = "rejected"]

\* result.then(res => { ...after hooks...; return res }), run for future d
Then(S, d) ==
    LET future == S.promises[d]
        result == Result(future.handlers)
    IN  IF result.st = "resolved"
        THEN LET S1 == AfterHooks(S, SelectSeq(S._actionSubscribers, HasAfter), 1, d,
                                  future.payload)
             IN  [S1 EXCEPT !.promises[d].st = "resolved",
                            !.promises[d].value = result.value]
        ELSE [S EXCEPT !.promises[d].st = "rejected"]

(***************************************************************************)
(* makeLocalContext: the dispatch of a module's local context              *)
(***************************************************************************)
LocalDispatch(S, local, type, payload, root) ==
    IF local.namespace = << >> THEN Dispatch(S, type, payload)
    ELSE IF ~ root /\ (local.namespace \o type) \notin DOMAIN S._actions THEN S
    ELSE Dispatch(S, IF root THEN type ELSE local.namespace \o type, payload)

(***************************************************************************)
(* subscribe / subscribeAction                                             *)
(***************************************************************************)
\* function genericSubscribe (fn, subs), the subscription
GenericSubscribe(fn, subs) == IF Contains(subs, fn) THEN subs ELSE Append(subs, fn)
\* the function genericSubscribe returns
GenericUnsubscribe(fn, subs) ==
    IF Contains(subs, fn) THEN RemoveAt(subs, IndexOf(subs, fn)) ELSE subs

(***************************************************************************)
(* registerModule / unregisterModule / hotUpdate                           *)
(***************************************************************************)
\* registerModule (path, rawModule, options)
RegisterModule(S, path, rawModule, preserveState) ==
    LET T == Register([mods |-> S._modules, nextId |-> S.nextId, thrown |-> FALSE],
                      path, rawModule, TRUE)
        S0 == [S EXCEPT !._modules = T.mods, !.nextId = T.nextId]
        S1 == InstallModule(S0, path, preserveState)
    IN  IF T.thrown THEN Throw(S0)
        ELSE IF S1.thrown THEN S1 ELSE ResetStoreVM(S1, FALSE, TRUE)

\* unregisterModule (path)
UnregisterModule(S, path) ==
    LET S1 == [S EXCEPT !._modules = Unregister(@, path)]
    IN  IF NestedStateThrows(S1.state, Parent(path)) THEN Throw(S1)
        ELSE IF ~ NestedStateDefined(S1.state, Parent(path))
             THEN Throw([S1 EXCEPT !._committing = TRUE])
             ELSE ResetStore(
                      WithCommitExit(
                          Watch([WithCommitEnter(S1) EXCEPT !.state = VueDelete(@, path)]),
                          S1._committing),
                      FALSE)

\* HotUpdate that leaves the tables as they are
HotUpdateWithoutReset(S, newOptions) ==
    [S EXCEPT !._modules = Update(@, Root, newOptions)]

\* HotUpdate whose reinstallation does not pass the hot flag on
HotUpdateAttachingState(S, newOptions) ==
    InstallModule([S EXCEPT !._modules = Update(@, Root, newOptions),
                            !._actions = EmptyTable, !._mutations = EmptyTable,
                            !._wrappedGetters = EmptyTable,
                            !._modulesNamespaceMap = EmptyTable],
                  Root, FALSE)

\* ReplaceState that leaves the vm with the state object it had
ReplaceStateKeepingOld(S, newState) ==
    WithCommitExit(WithCommitEnter(S), S._committing)

\* replaceState (state)
ReplaceState(S, newState) ==
    WithCommitExit(Watch([WithCommitEnter(S) EXCEPT !.state = newState]),
                   S._committing)

\* hotUpdate (newOptions)
HotUpdate(S, newOptions) ==
    ResetStore([S EXCEPT !._modules = Update(@, Root, newOptions)], TRUE)
(***************************************************************************)
(* The configurations and inputs the model draws from.                     *)
(***************************************************************************)
Inc == <<"inc">>
Act == <<"act">>
Get1 == <<"g">>
AInc == <<"a", Sep, "inc">>
AAct == <<"a", Sep, "act">>
BInc == <<"b", Sep, "inc">>
Nope == <<"nope">>
Leaf(ns, st, muts, acts, gets) == Raw(ns, st, muts, acts, gets, << >>)

\* the scenario of the specification, with a second module that shares the
\* root's types
RootFlat ==
    Raw(FALSE, 0, Map(<<M(Inc, "rootInc")>>), Map(<<M(Act, "rootAct")>>),
        Map(<<M(Get1, "rootG")>>),
        << Child("a", Leaf(TRUE, 0, Map(<<M(Inc, "aInc")>>), Map(<<M(Act, "aAct")>>),
                           Map(<<M(Get1, "aG")>>))),
           Child("b", Leaf(FALSE, 0, Map(<<M(Inc, "bInc")>>), Map(<<M(Act, "bSync")>>),
                           Map(<<M(Get1, "bG")>>))) >>)
\* a nested tree whose root declares a type that contains the separator
RootDeep ==
    Raw(FALSE, 0, Map(<<M(AInc, "rootAInc")>>), Map(<<M(Act, "rootSync")>>), NoMap,
        << Child("a", Raw(TRUE, 0, Map(<<M(Inc, "aInc")>>), Map(<<M(Act, "aAct")>>),
                          NoMap,
                          << Child("b", Leaf(FALSE, 0, Map(<<M(Inc, "abInc")>>),
                                             Map(<<M(Act, "abAct")>>), NoMap)) >>)) >>)
RootConfigs == {RootFlat, RootDeep}

DynLeaf == Leaf(TRUE, 1, Map(<<M(Inc, "xInc")>>), Map(<<M(Act, "xAct")>>),
                Map(<<M(Get1, "xG")>>))
DynTree ==
    Raw(FALSE, 1, Map(<<M(Inc, "yInc")>>), NoMap, Map(<<M(Get1, "yG")>>),
        << Child("b", Leaf(TRUE, 1, Map(<<M(Inc, "ybInc")>>), NoMap, NoMap)) >>)
DynConfigs == {DynLeaf, DynTree}
\* configurations that fail validation: in the module's own maps, and in the
\* maps of the second of two nested modules
DynBad == Leaf(TRUE, 1, Map(<<M(Inc, NotAFunction)>>), NoMap, NoMap)
DynBadChild ==
    Raw(TRUE, 1, Map(<<M(Inc, "zInc")>>), NoMap, NoMap,
        << Child("a", Leaf(FALSE, 1, Map(<<M(Inc, "zaInc")>>), NoMap, NoMap)),
           Child("b", Leaf(FALSE, 1, NoMap, Map(<<M(Act, NotAFunction)>>), NoMap)) >>)
InvalidConfigAt == <<DynBad, DynBadChild>>
InvalidConfigs == {InvalidConfigAt[i] : i \in 1..Len(InvalidConfigAt)}

HotFlat ==
    Raw(FALSE, 2, Map(<<M(Inc, "hotInc")>>), NoMap, NoMap,
        << Child("a", Leaf(FALSE, 2, NoMap, Map(<<M(Act, "hotAct")>>), NoMap)) >>)
HotNew ==
    Raw(FALSE, 2, NoMap, NoMap, NoMap,
        << Child("c", Leaf(TRUE, 2, NoMap, NoMap, NoMap)),
           Child("a", Leaf(TRUE, 2, Map(<<M(Inc, "hotAInc")>>), NoMap, NoMap)) >>)
HotConfigAt == <<HotFlat, HotNew>>
HotConfigs == {HotConfigAt[i] : i \in 1..Len(HotConfigAt)}

Outer == <<"outer">>
Bad == <<"bad">>
\* a strict store whose root has a mutation that commits another one and a
\* mutation that throws
RootStrict ==
    Raw(FALSE, 0,
        Map(<<M(Inc, "rootInc"), M(Outer, "outerInc"), M(Bad, "badInc")>>),
        NoMap, NoMap,
        << Child("a", Leaf(TRUE, 0, Map(<<M(Inc, "aInc")>>), NoMap, NoMap)) >>)
StrictMutationTypes == {Inc, AInc, Outer, Bad}
WrittenValues == {8}
ReplacedValues == {7}

Go == <<"go">>
AGo == <<"a", Sep, "go">>
\* stores whose namespaced module a declares the action go with root: true;
\* in the second the root declares actions of the types go and a/go itself
RootGo ==
    Raw(FALSE, 0, Map(<<M(Inc, "rootInc")>>), Map(<<M(Act, "rootAct")>>), NoMap,
        << Child("a", Leaf(TRUE, 5, Map(<<M(Inc, "aInc")>>),
                           Map(<<RootAction(Go, "aGo"), M(Act, "aAct")>>), NoMap)) >>)
RootGoShared ==
    Raw(FALSE, 0, Map(<<M(Inc, "rootInc")>>),
        Map(<<M(Go, "rootSync"), M(AGo, "rootAct")>>), NoMap,
        << Child("a", Leaf(TRUE, 5, Map(<<M(Inc, "aInc")>>),
                           Map(<<RootAction(Go, "aGo")>>), NoMap)) >>)
RootActionTypes == {Go, AGo, Act}

\* a tree without namespaces: a module registered below a is installed after
\* c, which a fresh installation visits after it
RootPlain ==
    Raw(FALSE, 0, Map(<<M(Inc, "rootInc")>>), NoMap, NoMap,
        << Child("a", Leaf(FALSE, 0, NoMap, NoMap, NoMap)),
           Child("c", Leaf(FALSE, 0, Map(<<M(Inc, "cInc")>>), NoMap,
                           Map(<<M(Get1, "cG")>>))) >>)

GlobalMutationTypes == {Inc, AInc, BInc, Nope}
GlobalActionTypes == {Act, AAct, Nope}
LocalMutationTypes == {Inc, Nope}
LocalActionTypes == {Act, Nope}

(***************************************************************************)
(* The state machine.                                                      *)
(***************************************************************************)
\* before: what the store held when registerModule was called, kept for the
\* call that follows it
NoSnapshot == << >>
Snapshot ==
    [_modules |-> _modules, state |-> state, _mutations |-> _mutations,
     _actions |-> _actions, _wrappedGetters |-> _wrappedGetters,
     _modulesNamespaceMap |-> _modulesNamespaceMap]
NoOp == [op |-> "new", path |-> Root, type |-> << >>, payload |-> 0,
         root |-> FALSE, fn |-> "", threw |-> FALSE, before |-> NoSnapshot]
Op(op, path, type, payload, root, fn, S) ==
    [op |-> op, path |-> path, type |-> type, payload |-> payload, root |-> root,
     fn |-> fn, threw |-> S.thrown, before |-> NoSnapshot]

\* the variables take the values the operation left in S
Becomes(S) ==
    /\ _committing' = S._committing
    /\ _mutations' = S._mutations
    /\ _actions' = S._actions
    /\ _wrappedGetters' = S._wrappedGetters
    /\ _modulesNamespaceMap' = S._modulesNamespaceMap
    /\ _modules' = S._modules
    /\ state' = S.state
    /\ _subscribers' = S._subscribers
    /\ _actionSubscribers' = S._actionSubscribers
    /\ strict' = S.strict
    /\ _vm' = S._vm
    /\ promises' = S.promises
    /\ nextId' = S.nextId
    /\ trace' = S.trace

\* constructor (options).  A plugin of the model subscribes the model's
\* subscribers and action subscribers, as a logging plugin does.
NoVm == [watch |-> FALSE]
NoPlugins == [subscribe |-> << >>, subscribeAction |-> << >>]
Plugin == [subscribe |-> <<"s1", "s2">>, subscribeAction |-> <<"h1", "h2">>]
Options == [root : RootConfigs, plugins : {NoPlugins, Plugin}, strict : {FALSE}]

Constructed(options) ==
    LET T == Register([mods |-> << >>, nextId |-> 1, thrown |-> FALSE], Root,
                      options.root, FALSE)
        S0 == [_committing |-> FALSE, _mutations |-> EmptyTable,
               _actions |-> EmptyTable, _wrappedGetters |-> EmptyTable,
               _modulesNamespaceMap |-> EmptyTable, _modules |-> T.mods,
               state |-> (Root :> [count |-> T.mods[Root].state]),
               _subscribers |-> << >>, _actionSubscribers |-> << >>,
               strict |-> options.strict, _vm |-> NoVm,
               promises |-> << >>, nextId |-> T.nextId, trace |-> << >>,
               thrown |-> FALSE]
        S1 == ResetStoreVM(InstallModule(S0, Root, FALSE), FALSE, FALSE)
    IN  [S1 EXCEPT !._subscribers = options.plugins.subscribe,
                   !._actionSubscribers = options.plugins.subscribeAction]

StrictOptions == [root : {RootStrict}, plugins : {NoPlugins, Plugin}, strict : {TRUE}]

InitWith(options) ==
        LET S == Constructed(options)
        IN  /\ _committing = S._committing
            /\ _mutations = S._mutations
            /\ _actions = S._actions
            /\ _wrappedGetters = S._wrappedGetters
            /\ _modulesNamespaceMap = S._modulesNamespaceMap
            /\ _modules = S._modules
            /\ state = S.state
            /\ _subscribers = S._subscribers
            /\ _actionSubscribers = S._actionSubscribers
            /\ strict = S.strict
            /\ _vm = S._vm
            /\ promises = S.promises
            /\ nextId = S.nextId
            /\ trace = << >>
            /\ last = NoOp
            /\ used = 0

Init == \E options \in Options : InitWith(options)
InitStrict == \E options \in StrictOptions : InitWith(options)
PlainOptions == [root : {RootPlain}, plugins : {NoPlugins, Plugin}, strict : {FALSE}]
InitPlain == \E options \in PlainOptions : InitWith(options)
RootActionOptions ==
    [root : {RootGo, RootGoShared}, plugins : {NoPlugins, Plugin}, strict : {FALSE}]
InitRootAction == \E options \in RootActionOptions : InitWith(options)

DoCommit ==
    \E type \in (IF strict THEN StrictMutationTypes ELSE GlobalMutationTypes),
       payload \in Payloads :
        /\ used < MaxCalls
        /\ LET S == Commit(Store, type, payload)
           IN  Becomes(S) /\ last' = Op("commit", Root, type, payload, FALSE, "", S)
        /\ used' = used + 1

DoLocalCommit ==
    \E path \in DOMAIN _modules, type \in LocalMutationTypes,
       payload \in OtherPayloads, root \in BOOLEAN :
        /\ used < MaxCalls
        /\ _modules[path].context.set
        /\ LET S == LocalCommit(Store, _modules[path].context, type, payload, root)
           IN  Becomes(S) /\ last' = Op("localCommit", path, type, payload, root, "", S)
        /\ used' = used + 1

DoDispatch ==
    \E type \in (IF Go \in DOMAIN _actions THEN RootActionTypes ELSE GlobalActionTypes),
       payload \in OtherPayloads :
        /\ used < MaxCalls
        /\ LET S == Dispatch(Store, type, payload)
           IN  Becomes(S) /\ last' = Op("dispatch", Root, type, payload, FALSE, "", S)
        /\ used' = used + 1

DoLocalDispatch ==
    \E path \in DOMAIN _modules, type \in LocalActionTypes,
       payload \in OtherPayloads, root \in BOOLEAN :
        /\ used < MaxCalls
        /\ _modules[path].context.set
        /\ LET S == LocalDispatch(Store, _modules[path].context, type, payload, root)
           IN  Becomes(S) /\ last' = Op("localDispatch", path, type, payload, root, "", S)
        /\ used' = used + 1

\* a pending future of an action handler is resolved or rejected
Settle ==
    \E d \in 1..Len(promises), outcome \in {"resolved", "rejected"} :
        \E i \in 1..Len(promises[d].handlers) :
            /\ promises[d].handlers[i].st = "pending"
            /\ LET S == [Store EXCEPT !.promises[d].handlers[i].st = outcome]
               IN  Becomes(S) /\ last' = Op("settle", Root, << >>, d, FALSE, outcome, S)
            /\ UNCHANGED used

\* the reaction dispatch attached to the result runs
DoThen ==
    \E d \in 1..Len(promises) :
        /\ promises[d].st = "pending"
        /\ Result(promises[d].handlers).st # "pending"
        /\ LET S == Then(Store, d)
           IN  Becomes(S) /\ last' = Op("then", Root, promises[d].type, d, FALSE, "", S)
        /\ UNCHANGED used

DoSubscribe ==
    \E fn \in Subscribers :
        /\ used < MaxCalls
        /\ LET S == [Store EXCEPT !._subscribers = GenericSubscribe(fn, @)]
           IN  Becomes(S) /\ last' = Op("subscribe", Root, << >>, 0, FALSE, fn, S)
        /\ used' = used + 1

DoUnsubscribe ==
    \E fn \in Subscribers :
        /\ used < MaxCalls
        /\ Contains(_subscribers, fn)
        /\ LET S == [Store EXCEPT !._subscribers = GenericUnsubscribe(fn, @)]
           IN  Becomes(S) /\ last' = Op("unsubscribe", Root, << >>, 0, FALSE, fn, S)
        /\ used' = used + 1

DoSubscribeAction ==
    \E fn \in ActionSubscribers :
        /\ used < MaxCalls
        /\ LET S == [Store EXCEPT !._actionSubscribers = GenericSubscribe(fn, @)]
           IN  Becomes(S) /\ last' = Op("subscribeAction", Root, << >>, 0, FALSE, fn, S)
        /\ used' = used + 1

DoUnsubscribeAction ==
    \E fn \in ActionSubscribers :
        /\ used < MaxCalls
        /\ Contains(_actionSubscribers, fn)
        /\ LET S == [Store EXCEPT !._actionSubscribers = GenericUnsubscribe(fn, @)]
           IN  Becomes(S) /\ last' = Op("unsubscribeAction", Root, << >>, 0, FALSE, fn, S)
        /\ used' = used + 1

DoRegisterModule ==
    \E path \in RegisterPaths, rawModule \in DynConfigs,
       preserveState \in PreserveStateOptions :
        /\ used < MaxCalls
        /\ Parent(path) \in DOMAIN _modules
        /\ LET S == RegisterModule(Store, path, rawModule, preserveState)
           IN  Becomes(S)
               /\ last' = [Op("registerModule", path, << >>, 0, preserveState,
                               IF path \in DOMAIN _modules THEN "occupied"
                               ELSE "free", S)
                            EXCEPT !.before = Snapshot]
        /\ used' = used + 1

\* registerModule called with a configuration that fails validation
DoRegisterInvalidModule ==
    \E path \in RegisterPaths, rawModule \in InvalidConfigs :
        /\ used < MaxCalls
        /\ Parent(path) \in DOMAIN _modules
        /\ LET S == RegisterModule(Store, path, rawModule, FALSE)
           IN  Becomes(S)
               /\ last' = [Op("registerModule", path, << >>,
                               IndexOf(InvalidConfigAt, rawModule), FALSE,
                               IF path \in DOMAIN _modules THEN "occupied"
                               ELSE "free", S)
                            EXCEPT !.before = Snapshot]
        /\ used' = used + 1

DoUnregisterModule ==
    \E path \in (DOMAIN _modules) \ {Root} :
        /\ used < MaxCalls
        /\ LET S == UnregisterModule(Store, path)
           IN  Becomes(S) /\ last' = Op("unregisterModule", path, << >>, 0, FALSE, "", S)
        /\ used' = used + 1

DoHotUpdate ==
    \E newOptions \in HotConfigs :
        /\ used < MaxCalls
        /\ LET S == HotUpdate(Store, newOptions)
           IN  Becomes(S)
               /\ last' = Op("hotUpdate", Root, << >>, IndexOf(HotConfigAt, newOptions),
                             FALSE, "", S)
        /\ used' = used + 1

\* user code writes a field of the state outside the store's methods
DoDirectWrite ==
    \E path \in DOMAIN state, value \in WrittenValues :
        /\ used < MaxCalls
        /\ LET S == Watch([Store EXCEPT !.state[path].count = value])
           IN  Becomes(S) /\ last' = Op("write", path, << >>, value, FALSE, "", S)
        /\ used' = used + 1

DoReplaceState ==
    \E value \in ReplacedValues :
        /\ used < MaxCalls
        /\ LET S == ReplaceState(Store, [path \in DOMAIN state |-> [count |-> value]])
           IN  Becomes(S) /\ last' = Op("replaceState", Root, << >>, value, FALSE, "", S)
        /\ used' = used + 1

\* the module tree changes while mutations are committed
Next ==
    \/ DoRegisterModule
    \/ DoUnregisterModule
    \/ DoHotUpdate
    \/ DoCommit
    \/ DoLocalCommit

Spec == Init /\ [][Next]_vars

\* mutations are committed while subscribers come and go
NextCommit ==
    \/ DoCommit
    \/ DoLocalCommit
    \/ DoSubscribe
    \/ DoUnsubscribe

SpecCommit == Init /\ [][NextCommit]_vars

\* actions are dispatched and settle while action subscribers come and go
NextDispatch ==
    \/ DoDispatch
    \/ DoLocalDispatch
    \/ Settle
    \/ DoThen
    \/ DoSubscribeAction
    \/ DoUnsubscribeAction

SpecDispatch == Init /\ [][NextDispatch]_vars

\* commits and dispatches, global and local, on a store with subscribers
NextCalls ==
    \/ DoCommit
    \/ DoLocalCommit
    \/ DoDispatch
    \/ DoLocalDispatch

SpecCalls == Init /\ [][NextCalls]_vars

\* a strict store: commits, structural changes and writes from outside
NextStrict ==
    \/ DoCommit
    \/ DoDirectWrite
    \/ DoReplaceState
    \/ DoRegisterModule
    \/ DoUnregisterModule
    \/ DoHotUpdate

SpecStrict == InitStrict /\ [][NextStrict]_vars

\* modules are registered and unregistered on a tree without namespaces
NextPlain ==
    \/ DoRegisterModule
    \/ DoUnregisterModule
    \/ DoCommit

SpecPlain == InitPlain /\ [][NextPlain]_vars

\* modules are registered with valid and with invalid configurations
NextValidation ==
    \/ DoRegisterModule
    \/ DoRegisterInvalidModule
    \/ DoUnregisterModule
    \/ DoCommit

SpecValidation == Init /\ [][NextValidation]_vars

\* dispatches on a store with an action declared with root: true
NextRootAction ==
    \/ DoDispatch
    \/ DoLocalDispatch
    \/ Settle
    \/ DoThen

SpecRootAction == InitRootAction /\ [][NextRootAction]_vars
(***************************************************************************)
(* What the claims speak of.                                               *)
(***************************************************************************)
\* the step just taken was the call op (every call sets last)
Did(op) == last'.op = op
Returned == ~ last'.threw

\* the calls of kind ev in a log, in order
IsMutation(call) == call.ev = "mutation"
IsSubscriber(call) == call.ev = "subscriber"
IsBefore(call) == call.ev = "before"
IsAfter(call) == call.ev = "after"
IsAction(call) == call.ev = "action"

\* the log a commit leaves when every handler of entry runs once, in order,
\* with the payload
HandlerCalls(entry, payload) ==
    [i \in 1..Len(entry) |->
        Call("mutation", entry[i].fn, entry[i].owner, entry[i].path, payload)]
\* ... and every subscriber of subs is then notified once, in order
SubscriberCalls(subs, payload) ==
    [i \in 1..Len(subs) |-> Call("subscriber", subs[i], 0, Root, payload)]

\* the tables a fresh installation of the module tree produces
Fresh == ResetStore(Store, TRUE)

(***************************************************************************)
(* C1.  A commit of a type with N >= 1 handlers that returns has invoked   *)
(* the N handlers once each, in installation order, with the payload, and  *)
(* has then notified every subscriber exactly once.                        *)
(***************************************************************************)
C1_CommitInvokesAllThenNotifiesAll ==
    [][ (Did("commit") /\ last'.type \in DOMAIN _mutations /\ Returned)
        => trace' = HandlerCalls(Fresh._mutations[last'.type], last'.payload)
                        \o SubscriberCalls(_subscribers, last'.payload) ]_vars

(***************************************************************************)
(* C8.  After the handlers of a commit (global or local) of a registered   *)
(* type, every subscriber subscribed at that moment is notified exactly    *)
(* once, in subscription order, also when a subscriber unsubscribes while  *)
(* the notifications are delivered.                                        *)
(***************************************************************************)
C8_EverySubscriberNotifiedOnce ==
    [][ ((Did("commit") \/ Did("localCommit")) /\ Returned
            /\ \E i \in 1..Len(trace') : IsMutation(trace'[i]))
        => SelectSeq(trace', IsSubscriber)
               = SubscriberCalls(_subscribers, last'.payload) ]_vars
(***************************************************************************)
(* C2.  The future of a dispatch with more than one handler is resolved    *)
(* only when every handler's future is resolved.  When a handler's future  *)
(* is rejected the dispatch's future is never resolved, the reaction to    *)
(* the joined result rejects it, and no after hook is called for it.       *)
(***************************************************************************)
Joined(d) == Len(promises[d].handlers) > 1
AllResolved(d) ==
    \A i \in 1..Len(promises[d].handlers) : promises[d].handlers[i].st = "resolved"
SomeRejected(d) ==
    \E i \in 1..Len(promises[d].handlers) : promises[d].handlers[i].st = "rejected"
AfterHookCalledFor(d) ==
    \E k \in 1..Len(trace) : IsAfter(trace[k]) /\ trace[k].owner = d

C2_JoinedDispatchWaitsForAll ==
    \A d \in 1..Len(promises) :
        Joined(d) =>
            /\ promises[d].st = "resolved" => AllResolved(d)
            /\ SomeRejected(d) =>
                   /\ promises[d].st # "resolved"
                   /\ ~ AfterHookCalledFor(d)
                   /\ (last.op = "then" /\ last.payload = d) => promises[d].st = "rejected"

\* a joined dispatch was rejected by one handler while an after hook was subscribed
C2_Witness ==
    \E d \in 1..Len(promises) :
        /\ Joined(d) /\ SomeRejected(d) /\ promises[d].st = "rejected"
        /\ last.op = "then" /\ last.payload = d
        /\ \E i \in 1..Len(_actionSubscribers) : HasAfter(_actionSubscribers[i])

(***************************************************************************)
(* C7.  A dispatch of a registered type calls every subscribed before hook *)
(* exactly once, in order, before any handler, whether or not a hook       *)
(* throws, and the handlers run and the future is returned all the same.   *)
(***************************************************************************)
BeforeCalls(subs, d, payload) ==
    [i \in 1..Len(subs) |-> Call("before", subs[i], d, Root, payload)]

C7_EveryBeforeHookRunsOnce ==
    [][ (Did("dispatch") /\ last'.type \in DOMAIN _actions)
        => LET hooks == SelectSeq(_actionSubscribers, HasBefore)
               d == Len(promises) + 1
           IN  /\ Len(promises') = d
               /\ SubSeq(trace', 1, Len(hooks)) = BeforeCalls(hooks, d, last'.payload)
               /\ SelectSeq(trace', IsAction)
                      = SubSeq(trace', Len(hooks) + 1, Len(trace'))
               /\ Len(SelectSeq(trace', IsAction)) = Len(_actions[last'.type]) ]_vars
(***************************************************************************)
(* C3.  unregisterModule(P) on a module of the initial configuration       *)
(* changes nothing: tree, state, tables and namespace map stay as they     *)
(* were.                                                                   *)
(***************************************************************************)
C3_UnregisterStaticIsNoOp ==
    [][ (Did("unregisterModule") /\ ~ _modules[last'.path].runtime)
        => /\ _modules' = _modules
           /\ state' = state
           /\ _mutations' = _mutations
           /\ _actions' = _actions
           /\ _wrappedGetters' = _wrappedGetters
           /\ _modulesNamespaceMap' = _modulesNamespaceMap ]_vars

(***************************************************************************)
(* C4.  The mutation, action and getter tables and the namespace map are   *)
(* always the ones a fresh installation of the current module tree         *)
(* produces.                                                               *)
(***************************************************************************)
C4_TablesAreFreshInstallation ==
    /\ _mutations = Fresh._mutations
    /\ _actions = Fresh._actions
    /\ _wrappedGetters = Fresh._wrappedGetters
    /\ _modulesNamespaceMap = Fresh._modulesNamespaceMap

(***************************************************************************)
(* C5.  The state mirrors the module tree: there is a state slice at path  *)
(* P exactly when the tree has a node at P (registerModule is never called *)
(* with preserveState in this model).                                      *)
(***************************************************************************)
C5_StateMirrorsTree == DOMAIN state = DOMAIN _modules

(***************************************************************************)
(* C6.  The local commit of a namespaced module has the effect of the      *)
(* global commit of the namespace followed by the type, and with           *)
(* { root: true } the effect of the global commit of the type itself.      *)
(***************************************************************************)
GlobalType(path, type, root) ==
    IF root THEN type ELSE GetNamespace(_modules, path) \o type
SameEffect(S) ==
    /\ _committing' = S._committing
    /\ state' = S.state
    /\ trace' = S.trace
    /\ _subscribers' = S._subscribers
    /\ last'.threw = S.thrown
    /\ _mutations' = S._mutations
    /\ _modules' = S._modules

C6_LocalCommitIsPrefixedGlobalCommit ==
    [][ (Did("localCommit") /\ GetNamespace(_modules, last'.path) # << >>)
        => SameEffect(Commit(Store, GlobalType(last'.path, last'.type, last'.root),
                             last'.payload)) ]_vars

\* a local commit with { root: true } ran a handler of another module, and
\* notified a subscriber
C6_Witness ==
    /\ last.op = "localCommit" /\ last.root
    /\ last.path \in DOMAIN _modules
    /\ GetNamespace(_modules, last.path) # << >>
    /\ \E i \in 1..Len(trace) : IsMutation(trace[i]) /\ trace[i].path # last.path
    /\ \E i \in 1..Len(trace) : IsSubscriber(trace[i])

(***************************************************************************)
(* C9.  A commit or dispatch, global or local, whose fully-qualified type  *)
(* is not in the table calls no handler, no subscriber and no hook,        *)
(* changes nothing in the store and returns no future.                     *)
(***************************************************************************)
LocalType(path, type, root) ==
    IF root \/ GetNamespace(_modules, path) = << >> THEN type
    ELSE GetNamespace(_modules, path) \o type
Unregistered ==
    \/ Did("commit") /\ last'.type \notin DOMAIN _mutations
    \/ Did("dispatch") /\ last'.type \notin DOMAIN _actions
    \/ Did("localCommit")
           /\ LocalType(last'.path, last'.type, last'.root) \notin DOMAIN _mutations
    \/ Did("localDispatch")
           /\ LocalType(last'.path, last'.type, last'.root) \notin DOMAIN _actions

C9_UnknownTypeIsNoOp ==
    [][ Unregistered
        => /\ trace' = << >>
           /\ ~ last'.threw
           /\ UNCHANGED << _committing, _mutations, _actions, _wrappedGetters,
                           _modulesNamespaceMap, _modules, state, _subscribers,
                           _actionSubscribers, promises, nextId >> ]_vars

\* a local call of a namespaced module named an unknown type on a store that
\* has mutation subscribers and action subscribers
C9_Witness ==
    /\ last.op \in {"localCommit", "localDispatch"}
    /\ last.type = Nope
    /\ GetNamespace(_modules, last.path) # << >>
    /\ Len(_subscribers) > 0 /\ Len(_actionSubscribers) > 0
    /\ trace = << >>

(***************************************************************************)
(* C10.  A module of the initial configuration is never removed: the path  *)
(* of a node that is not dynamic keeps that node.                          *)
(***************************************************************************)
C10_StaticModuleStays ==
    [][ \A path \in DOMAIN _modules :
            ~ _modules[path].runtime
                => /\ path \in DOMAIN _modules'
                   /\ _modules'[path].id = _modules[path].id ]_vars

(***************************************************************************)
(* C11.  A commit that immediately follows the registration of a           *)
(* namespaced module at a free path, of a type for which the table holds   *)
(* no handler of another module, runs the module's handler exactly once    *)
(* and writes the module's state slice and nothing else.                   *)
(***************************************************************************)
JustRegistered(path) ==
    /\ last.op = "registerModule" /\ last.fn = "free" /\ ~ last.threw
    /\ last.path = path
    /\ Namespaced(_modules[path])
OwnType(path, i) ==
    GetNamespace(_modules, path) \o _modules[path]._rawModule.mutations.ents[i].key
OnlyHandlerOf(path, i) ==
    LET ent == _modules[path]._rawModule.mutations.ents[i]
    IN  Call("mutation", ent.fn, _modules[path].id, path, last'.payload)

C11_CommitAfterRegisterWritesOneSlice ==
    [][ \A path \in DOMAIN _modules :
          \A i \in 1..Len(_modules[path]._rawModule.mutations.ents) :
            ( /\ JustRegistered(path)
              /\ Did("commit") /\ last'.type = OwnType(path, i)
              /\ OwnType(path, i) \in DOMAIN _mutations
              /\ Len(_mutations[OwnType(path, i)]) = 1 )
            => /\ SelectSeq(trace', IsMutation) = << OnlyHandlerOf(path, i) >>
               /\ state' = [state EXCEPT ![path].count = last'.payload]
               /\ Returned ]_vars

\* the commit of b/inc after registerModule(['b'], ...) changed the slice
C11_Witness ==
    /\ last.op = "commit" /\ last.type = BInc /\ ~ last.threw
    /\ <<"b">> \in DOMAIN _modules /\ _modules[<<"b">>].runtime
    /\ state[<<"b">>].count = last.payload
    /\ state[<<"b">>].count # _modules[<<"b">>].state
    /\ \E i \in 1..Len(trace) : IsMutation(trace[i]) /\ trace[i].fn = "xInc"

(***************************************************************************)
(* C12.  After hotUpdate the mutation, action and getter tables are the    *)
(* tables a fresh installation of the updated module tree produces: same   *)
(* keys, same handlers, same order under each key.                         *)
(***************************************************************************)
\* the store a first installation of the current module tree builds, as the
\* constructor does it: empty tables, the root's state, hot not set
FreshInstall ==
    InstallModule([Store EXCEPT !._actions = EmptyTable, !._mutations = EmptyTable,
                                !._wrappedGetters = EmptyTable,
                                !._modulesNamespaceMap = EmptyTable,
                                !._committing = FALSE,
                                !.state = (Root :> [count |-> _modules[Root].state])],
                  Root, FALSE)

C12_HotUpdateTablesAreFresh ==
    last.op = "hotUpdate"
        => /\ DOMAIN _mutations = DOMAIN FreshInstall._mutations
           /\ \A type \in DOMAIN _mutations :
                  _mutations[type] = FreshInstall._mutations[type]
           /\ DOMAIN _actions = DOMAIN FreshInstall._actions
           /\ \A type \in DOMAIN _actions : _actions[type] = FreshInstall._actions[type]
           /\ DOMAIN _wrappedGetters = DOMAIN FreshInstall._wrappedGetters
           /\ \A type \in DOMAIN _wrappedGetters :
                  _wrappedGetters[type] = FreshInstall._wrappedGetters[type]

\* hotUpdate replaced the root's mutation map: the new handler is in the
\* table and the replaced one is not
C12_Witness ==
    /\ last.op = "hotUpdate" /\ HotConfigAt[last.payload] = HotFlat
    /\ \E i \in 1..Len(_mutations[Inc]) : _mutations[Inc][i].fn = "hotInc"
    /\ \A type \in DOMAIN _mutations : \A i \in 1..Len(_mutations[type]) :
           _mutations[type][i].fn \notin {"rootInc", "rootAInc"}

(***************************************************************************)
(* C18.  hotUpdate leaves the state as it is: every slice has the value it *)
(* had before the call, whatever state the new configuration names.        *)
(***************************************************************************)
C18_HotUpdateKeepsState ==
    [][ Did("hotUpdate") => state' = state ]_vars

\* hotUpdate was called on a store in which a commit had changed a module's
\* slice, with a configuration naming another state
C18_Witness ==
    /\ last.op = "hotUpdate"
    /\ \E path \in (DOMAIN state) \ {Root} :
           /\ path \in DOMAIN _modules
           /\ state[path].count # _modules[path].state
           /\ state[path].count # HotFlat.state

(***************************************************************************)
(* C19.  hotUpdate applies the update of every child the new configuration *)
(* names that the tree has, also those listed after a key the tree does    *)
(* not have, and adds no node for the unknown key.                         *)
(***************************************************************************)
C19_UnknownKeyAbortsOnlyItsBranch ==
    [][ Did("hotUpdate")
        => LET kids == HotConfigAt[last'.payload].modules
           IN  \A i \in 1..Len(kids) :
                   LET path == <<kids[i].key>>
                   IN  IF path \in DOMAIN _modules
                       THEN /\ path \in DOMAIN _modules'
                            /\ _modules'[path]._rawModule
                                   = ModuleUpdate(_modules[path], kids[i].raw)._rawModule
                       ELSE path \notin DOMAIN _modules' ]_vars

(***************************************************************************)
(* C13.  After unregisterModule(P) on a dynamic module the tree has no     *)
(* node at P or below it, the state has no slice there, no table entry and *)
(* no namespace-map entry of P's subtree remains, and a type that only the *)
(* subtree registered is in no table.                                      *)
(***************************************************************************)
SubtreeIds(path) == {_modules[q].id : q \in {r \in DOMAIN _modules : IsPrefix(path, r)}}
OwnedBy(table, type, ids) ==
    \A i \in 1..Len(table[type]) : table[type][i].owner \in ids
NoneOwnedBy(table, ids) ==
    \A type \in DOMAIN table :
        \A i \in 1..Len(table[type]) : table[type][i].owner \notin ids

C13_UnregisterDynamicRemovesEverything ==
    [][ (Did("unregisterModule") /\ _modules[last'.path].runtime)
        => LET path == last'.path
               ids == SubtreeIds(path)
           IN  /\ \A q \in DOMAIN _modules' : ~ IsPrefix(path, q)
               /\ \A q \in DOMAIN state' : ~ IsPrefix(path, q)
               /\ NoneOwnedBy(_mutations', ids)
               /\ NoneOwnedBy(_actions', ids)
               /\ \A type \in DOMAIN _wrappedGetters' :
                      _wrappedGetters'[type].owner \notin ids
               /\ \A ns \in DOMAIN _modulesNamespaceMap' :
                      _modulesNamespaceMap'[ns] \notin ids
               /\ \A type \in DOMAIN _mutations :
                      OwnedBy(_mutations, type, ids) => type \notin DOMAIN _mutations'
               /\ \A type \in DOMAIN _actions :
                      OwnedBy(_actions, type, ids) => type \notin DOMAIN _actions' ]_vars

(***************************************************************************)
(* C14.  For every path P of the tree, get(P) is the node held for P, and  *)
(* getNamespace(P) consists of key, "/" for exactly the namespaced nodes   *)
(* along P (P's own node included), in root-to-leaf order.                 *)
(***************************************************************************)
NamespacedAlong(path) ==
    {i \in 1..Len(path) : Namespaced(_modules[SubSeq(path, 1, i)])}
Rank(path, i) == Cardinality({j \in NamespacedAlong(path) : j <= i})

C14_GetAndGetNamespace ==
    \A path \in DOMAIN _modules :
        LET ns == GetNamespace(_modules, path)
        IN  /\ Get(_modules, path) = _modules[path]
            /\ Len(ns) = 2 * Cardinality(NamespacedAlong(path))
            /\ \A i \in NamespacedAlong(path) :
                   /\ ns[2 * Rank(path, i) - 1] = path[i]
                   /\ ns[2 * Rank(path, i)] = Sep

\* the tree holds a dynamic namespaced module below a namespaced module and
\* a module whose ancestor is not namespaced
C14_Witness ==
    /\ \E path \in DOMAIN _modules :
           /\ Len(path) = 2 /\ _modules[path].runtime
           /\ Cardinality(NamespacedAlong(path)) = 2
    /\ \E path \in DOMAIN _modules :
           /\ Len(path) = 2
           /\ NamespacedAlong(path) = {2}

(***************************************************************************)
(* C15.  With strict mode on, every write made to the state outside the    *)
(* store's operations is reported, and no write made by commit,            *)
(* replaceState, registerModule, unregisterModule or hotUpdate is          *)
(* reported, also after the vm has been rebuilt.                           *)
(***************************************************************************)
IsViolation(call) == call.ev = "violation"
Reported == \E i \in 1..Len(trace') : IsViolation(trace'[i])

C15_StrictModeReportsExactlyOutsideWrites ==
    [][ /\ (strict /\ Did("write")) => Reported
        /\ (strict /\ \E op \in {"commit", "replaceState", "registerModule",
                                  "unregisterModule", "hotUpdate"} : Did(op))
               => ~ Reported ]_vars

(***************************************************************************)
(* C16.  A dispatch of a registered type first calls all before hooks,     *)
(* then the handlers; when every handler's future is resolved all after    *)
(* hooks are called and only then the dispatch's future resolves; with one *)
(* handler it resolves to that handler's value.                            *)
(***************************************************************************)
ActionCalls(entry, payload) ==
    [i \in 1..Len(entry) |->
        Call("action", entry[i].fn, entry[i].owner, entry[i].path, payload)]
AfterCalls(subs, d, payload) ==
    [i \in 1..Len(subs) |-> Call("after", subs[i], d, Root, payload)]

C16_DispatchOrder ==
    [][ /\ (Did("dispatch") /\ last'.type \in DOMAIN _actions)
            => trace' = BeforeCalls(SelectSeq(_actionSubscribers, HasBefore),
                                    Len(promises) + 1, last'.payload)
                            \o ActionCalls(_actions[last'.type], last'.payload)
        /\ \A d \in 1..Len(promises) :
               (promises[d].st # "resolved" /\ promises'[d].st = "resolved")
                   => /\ Did("then") /\ last'.payload = d
                      /\ AllResolved(d)
                      /\ trace' = AfterCalls(SelectSeq(_actionSubscribers, HasAfter),
                                             d, promises[d].payload)
                      /\ Len(promises[d].handlers) = 1
                             => promises'[d].value = << promises[d].handlers[1].value >>
      ]_vars

(***************************************************************************)
(* C17.  The flag is set during the whole of every mutation handler, also  *)
(* in the part of a handler that runs after a commit made from inside it   *)
(* has returned: on a strict store no write of a handler is reported, and  *)
(* the handler's write after the nested commit takes place.                *)
(***************************************************************************)
CalledNesting ==
    \E i \in 1..Len(trace') :
        IsMutation(trace'[i]) /\ Commits(trace'[i].fn) # << >>

C17_FlagHeldAcrossNestedCommit ==
    [][ (strict /\ Did("commit") /\ Returned)
        => /\ ~ Reported
           /\ CalledNesting => /\ state'[Root].count = last'.payload
                               /\ _committing' = _committing ]_vars

\* a commit ran the handler that commits another type, whose handler ran
\* too, and a subscriber was notified of each commit
C17_Witness ==
    /\ strict /\ last.op = "commit" /\ last.type = Outer /\ ~ last.threw
    /\ ~ _committing
    /\ \E i, j \in 1..Len(trace) :
           /\ i < j
           /\ IsMutation(trace[i]) /\ trace[i].fn = "outerInc"
           /\ IsMutation(trace[j]) /\ trace[j].fn = "rootInc"
    /\ Len(SelectSeq(trace, IsSubscriber)) >= 2
    /\ state[Root].count = last.payload

(***************************************************************************)
(* C20.  A node that hotUpdate updates gets each map the new configuration *)
(* provides in place of its previous map and keeps each map that is not    *)
(* provided; after the reinstallation a type that only a replaced map      *)
(* declared is in no table and the types of the maps that were kept are    *)
(* still in the tables.                                                    *)
(***************************************************************************)
\* the nodes the walk of update reaches, each with the configuration given
\* for it
RECURSIVE Visited(_, _, _), VisitedNested(_, _, _, _)
Visited(mods, path, raw) ==
    {[path |-> path, raw |-> raw]} \cup VisitedNested(mods, path, raw.modules, 1)
VisitedNested(mods, path, kids, i) ==
    IF i > Len(kids) THEN {}
    ELSE IF ~ HasChild(mods, path, kids[i].key) THEN {}
    ELSE Visited(mods, Append(path, kids[i].key), kids[i].raw)
             \cup VisitedNested(mods, path, kids, i + 1)

Merged(old, new) == IF new.has THEN new ELSE old
MapsMerged(v) ==
    LET old == _modules[v.path]._rawModule
        now == _modules'[v.path]._rawModule
    IN  /\ now.mutations = Merged(old.mutations, v.raw.mutations)
        /\ now.actions = Merged(old.actions, v.raw.actions)
        /\ now.getters = Merged(old.getters, v.raw.getters)

\* the types under which a table holds a handler of the module id
TypesOf(table, id) ==
    {type \in DOMAIN table : \E k \in 1..Len(table[type]) : table[type][k].owner = id}
\* the types that only the module id has handlers for
TypesOnlyOf(table, id) ==
    {type \in DOMAIN table : \A k \in 1..Len(table[type]) : table[type][k].owner = id}

C20_UpdateReplacesWholeMaps ==
    [][ Did("hotUpdate")
        => \A v \in Visited(_modules, Root, HotConfigAt[last'.payload]) :
             LET id == _modules[v.path].id
             IN  /\ MapsMerged(v)
                 /\ v.raw.mutations.has
                        => \A type \in TypesOnlyOf(_mutations, id) :
                              type \in DOMAIN _mutations'
                                  => type \in TypesOf(_mutations', id)
                 /\ ~ v.raw.mutations.has
                        => TypesOf(_mutations, id) \subseteq DOMAIN _mutations'
                 /\ ~ v.raw.actions.has
                        => TypesOf(_actions, id) \subseteq DOMAIN _actions' ]_vars

\* C20 as amended: the node's namespaced flag is replaced too, so after the
\* reinstallation the tables hold for the node exactly the entries of its
\* current mutation and action maps, each under the namespace of the updated
\* tree followed by its key (an action declared with root under its key).
HandlersOf(table, id) ==
    UNION {{[type |-> type, fn |-> table[type][k].fn] :
               k \in {j \in 1..Len(table[type]) : table[type][j].owner = id}} :
           type \in DOMAIN table}
EntriesOf(map, ns) ==
    {[type |-> (IF map.ents[i].root THEN map.ents[i].key ELSE ns \o map.ents[i].key),
      fn |-> map.ents[i].fn] : i \in 1..Len(map.ents)}

C20_UpdateMergesMapsAndFlag ==
    [][ Did("hotUpdate")
        => \A v \in Visited(_modules, Root, HotConfigAt[last'.payload]) :
             LET id == _modules[v.path].id
                 now == _modules'[v.path]._rawModule
                 ns == GetNamespace(_modules', v.path)
             IN  /\ MapsMerged(v)
                 /\ now.namespaced = v.raw.namespaced
                 /\ HandlersOf(_mutations', id) = EntriesOf(now.mutations, ns)
                 /\ HandlersOf(_actions', id) = EntriesOf(now.actions, ns) ]_vars

\* hotUpdate gave the module a new actions map and no mutations map and
\* cleared its namespaced flag: the kept mutation is now under the key alone
C20_Witness ==
    /\ last.op = "hotUpdate" /\ HotConfigAt[last.payload] = HotFlat
    /\ <<"a">> \in DOMAIN _modules
    /\ \E k \in 1..Len(_mutations[Inc]) : _mutations[Inc][k].fn = "aInc"
    /\ AInc \notin DOMAIN _mutations
    /\ \E k \in 1..Len(_actions[Act]) : _actions[Act][k].fn = "hotAct"
    /\ \A type \in DOMAIN _actions : \A k \in 1..Len(_actions[type]) :
           _actions[type][k].fn # "aAct"

(***************************************************************************)
(* C21.  An installation pass visits the modules in depth-first pre-order. *)
(* Of the getters that yield one fully-qualified name the table keeps one: *)
(* the one that was there before the pass, else the one of the first       *)
(* module of the pass that yields the name; every later one is rejected.   *)
(* The mutations and actions of one fully-qualified type are all kept,     *)
(* appended to the type's list in the order of the pass.                   *)
(***************************************************************************)
\* the paths of the subtree at path, in depth-first pre-order
RECURSIVE PreOrder(_, _), PreOrderKids(_, _, _, _)
PreOrder(mods, path) ==
    <<path>> \o PreOrderKids(mods, path, mods[path]._children, 1)
PreOrderKids(mods, path, kids, i) ==
    IF i > Len(kids) THEN << >>
    ELSE PreOrder(mods, Append(path, kids[i]))
             \o PreOrderKids(mods, path, kids, i + 1)

\* what the module at path declares in its map kind, in the map's order, each
\* entry with its fully-qualified type
Declared(mods, path, kind) ==
    LET ents == mods[path]._rawModule[kind].ents
        ns == GetNamespace(mods, path)
    IN  [i \in 1..Len(ents) |->
            [type |-> IF kind = "actions" /\ ents[i].root THEN ents[i].key
                      ELSE ns \o ents[i].key,
             w |-> Wrapped(ents[i].fn, MakeLocalContext(ns, path), mods[path].id)]]
RECURSIVE DeclaredAlong(_, _, _, _)
DeclaredAlong(mods, order, i, kind) ==
    IF i > Len(order) THEN << >>
    ELSE Declared(mods, order[i], kind) \o DeclaredAlong(mods, order, i + 1, kind)

TypesIn(decl) == {decl[i].type : i \in 1..Len(decl)}
OfType(decl, type) ==
    LET HasType(d) == d.type = type
        sel == SelectSeq(decl, HasType)
    IN  [k \in 1..Len(sel) |-> sel[k].w]
AllKept(old, decl) ==
    [type \in (DOMAIN old) \cup TypesIn(decl) |->
        (IF type \in DOMAIN old THEN old[type] ELSE << >>) \o OfType(decl, type)]
FirstKept(old, decl) ==
    [type \in (DOMAIN old) \cup TypesIn(decl) |->
        IF type \in DOMAIN old THEN old[type] ELSE OfType(decl, type)[1]]

\* the tables after a pass over the subtree at path of the tree mods that
\* started from the tables muts, acts and gets
PassLeaves(mods, path, muts, acts, gets) ==
    LET order == PreOrder(mods, path)
    IN  /\ _mutations' = AllKept(muts, DeclaredAlong(mods, order, 1, "mutations"))
        /\ _actions' = AllKept(acts, DeclaredAlong(mods, order, 1, "actions"))
        /\ _wrappedGetters' = FirstKept(gets, DeclaredAlong(mods, order, 1, "getters"))

C21_OneGetterPerNameAllHandlersKept ==
    [][ /\ (Did("registerModule") /\ Returned)
            => PassLeaves(_modules', last'.path, _mutations, _actions, _wrappedGetters)
        /\ ((Did("unregisterModule") \/ Did("hotUpdate")) /\ Returned)
            => PassLeaves(_modules', Root, EmptyTable, EmptyTable, EmptyTable) ]_vars

\* a module registered below a declared a getter and a mutation whose names
\* the module c has, which was installed before it and comes after it in the
\* tree: c's getter is the one in the table, and the list of the mutation
\* holds the root's handler, c's and then the new one
C21_Witness ==
    /\ last.op = "registerModule" /\ last.fn = "free" /\ ~ last.threw
    /\ last.path = <<"a", "b">>
    /\ Get1 \in DOMAIN _wrappedGetters /\ _wrappedGetters[Get1].fn = "cG"
    /\ \E i \in 1..Len(_modules[last.path]._rawModule.getters.ents) :
           _modules[last.path]._rawModule.getters.ents[i].fn = "yG"
    /\ Len(_mutations[Inc]) = 3
    /\ _mutations[Inc][1].fn = "rootInc" /\ _mutations[Inc][2].fn = "cInc"
    /\ _mutations[Inc][3].fn = "yInc"

(***************************************************************************)
(* C22.  An action that a namespaced module declares with root: true is    *)
(* in the table under its key alone and not under namespace + key: the     *)
(* dispatch of the key calls it, the dispatch of namespace + key does not. *)
(* Its handler is called with the module's local context: the state it     *)
(* reads is the module's slice and the commit it makes goes to the type    *)
(* namespace + the type it names.                                          *)
(***************************************************************************)
\* the root actions of the tree: [path, ent] for every entry declared with
\* root: true by a module with a namespace
RootActions ==
    UNION {{[path |-> path, ent |-> _modules[path]._rawModule.actions.ents[i]] :
               i \in {j \in 1..Len(_modules[path]._rawModule.actions.ents) :
                         _modules[path]._rawModule.actions.ents[j].root}} :
           path \in {q \in DOMAIN _modules : GetNamespace(_modules, q) # << >>}}
Holds(table, type, fn, id) ==
    /\ type \in DOMAIN table
    /\ \E k \in 1..Len(table[type]) : table[type][k].fn = fn /\ table[type][k].owner = id
CalledIn(log, ev, fn, id) ==
    Cardinality({k \in 1..Len(log) :
                    log[k].ev = ev /\ log[k].fn = fn /\ log[k].owner = id})

C22_RootActionUnderKeyWithLocalContext ==
    [][ \A r \in RootActions :
          LET ns == GetNamespace(_modules, r.path)
              id == _modules[r.path].id
              seen == state[r.path].count + last'.payload
          IN  /\ Holds(_actions, r.ent.key, r.ent.fn, id)
              /\ ~ Holds(_actions, ns \o r.ent.key, r.ent.fn, id)
              /\ (Did("dispatch") /\ last'.type = ns \o r.ent.key)
                     => CalledIn(trace', "action", r.ent.fn, id) = 0
              /\ (Did("dispatch") /\ last'.type = r.ent.key)
                     => /\ CalledIn(trace', "action", r.ent.fn, id) = 1
                        /\ ActionCommits(r.ent.fn) # << >>
                               => /\ SelectSeq(trace', IsMutation)
                                        = HandlerCalls(
                                              _mutations[ns \o ActionCommits(r.ent.fn)],
                                              seen)
                                  /\ state' = [state EXCEPT ![r.path].count = seen]
      ]_vars

\* dispatch('go') ran the root's handler and the handler of a, which read the
\* slice of a and committed a/inc, while a/go is a type of the root alone
C22_Witness ==
    /\ last.op = "dispatch" /\ last.type = Go /\ ~ last.threw
    /\ Len(_actions[Go]) = 2 /\ AGo \in DOMAIN _actions
    /\ \E k \in 1..Len(trace) : IsAction(trace[k]) /\ trace[k].fn = "aGo"
    /\ \E k \in 1..Len(trace) :
           /\ IsMutation(trace[k]) /\ trace[k].fn = "aInc"
           /\ trace[k].payload = RootGoShared.modules[1].raw.state + last.payload
    /\ state[<<"a">>].count = RootGoShared.modules[1].raw.state + last.payload
    /\ state[Root].count = RootGoShared.state

(***************************************************************************)
(* C23.  The future of a dispatch with more than one handler resolves once *)
(* every handler's future has resolved, and the value it resolves to holds *)
(* none of the values the handlers resolved to.                            *)
(***************************************************************************)
ValuesIn(value) == {value[i] : i \in 1..Len(value)}
HandlerValues(d) ==
    [i \in 1..Len(promises[d].handlers) |-> promises[d].handlers[i].value]

C23_JoinedResultDiscardsValues ==
    \A d \in 1..Len(promises) :
        (Joined(d) /\ promises[d].st = "resolved")
            => /\ AllResolved(d)
               /\ ValuesIn(promises[d].value) \cap ValuesIn(HandlerValues(d)) = {}

\* C23 as amended: the value the dispatch resolves to is the list of the
\* values the handlers resolved to, in the order of the handlers.
C23_JoinedResultListsValues ==
    \A d \in 1..Len(promises) :
        (Joined(d) /\ promises[d].st = "resolved")
            => /\ AllResolved(d)
               /\ promises[d].value = HandlerValues(d)

\* a dispatch with two handlers, one of which returned a future that was
\* resolved later, has resolved after its after hook ran
C23_Witness ==
    \E d \in 1..Len(promises) :
        /\ Len(promises[d].handlers) = 2 /\ promises[d].st = "resolved"
        /\ last.op = "then" /\ last.payload = d
        /\ \E i \in 1..2 : ~ ReturnsValue(promises[d].handlers[i].value)
        /\ AfterHookCalledFor(d)
        /\ Len(promises[d].value) = 2

(***************************************************************************)
(* C24.  A commit that follows replaceState(newState) hands every handler  *)
(* the slice of newState at its module's path: when the commit returns the *)
(* state of the store is newState with the payload written to the slices   *)
(* of the modules whose handlers ran, and nothing else changed.            *)
(***************************************************************************)
\* the paths of the modules whose handlers the table holds for the type
HandlerPaths(type) ==
    {_mutations[type][k].path : k \in 1..Len(_mutations[type])}
\* ... and of the modules whose handlers run in the commits these handlers make
WrittenPaths(type) ==
    HandlerPaths(type)
        \cup UNION {HandlerPaths(Commits(_mutations[type][k].fn)) :
                       k \in {j \in 1..Len(_mutations[type]) :
                                 Commits(_mutations[type][j].fn) \in DOMAIN _mutations}}
\* the state replaceState was called with (every slice holds the value)
NewState(value) == [path \in DOMAIN state |-> [count |-> value]]

C24_CommitAfterReplaceStateWritesNewState ==
    [][ ( /\ last.op = "replaceState" /\ ~ last.threw
          /\ Did("commit") /\ last'.type \in DOMAIN _mutations /\ Returned )
        => /\ state' = [path \in DOMAIN state |->
                           IF path \in WrittenPaths(last'.type)
                           THEN [count |-> last'.payload]
                           ELSE NewState(last.payload)[path]]
           /\ \A k \in 1..Len(trace') :
                  IsMutation(trace'[k]) => trace'[k].path \in DOMAIN state' ]_vars

\* after a replaceState a commit of a/inc wrote the slice of a in the new
\* state: the root's slice holds the value of the new state
C24_Witness ==
    /\ strict /\ last.op = "commit" /\ last.type = AInc /\ ~ last.threw
    /\ state[Root].count \in ReplacedValues
    /\ state[<<"a">>].count = last.payload
    /\ \E k \in 1..Len(trace) : IsMutation(trace[k]) /\ trace[k].path = <<"a">>

(***************************************************************************)
(* C25.  Between the operations of the store, when no commit,              *)
(* replaceState, registration or unregistration is running, _committing    *)
(* is false, also after a commit in which a mutation handler threw.        *)
(***************************************************************************)
C25_FlagClearBetweenOperations == _committing = FALSE

(***************************************************************************)
(* C26.  registerModule(P, cfg) at a free path P followed by               *)
(* unregisterModule(P) is a round trip: the module tree, the state, the    *)
(* mutation, action and getter tables (keys and the order of the handlers  *)
(* under each key) and the namespace map are what they were before the     *)
(* registerModule call.                                                    *)
(***************************************************************************)
C26_RegisterUnregisterRoundTrip ==
    [][ ( /\ last.op = "registerModule" /\ last.fn = "free" /\ ~ last.threw
          /\ Did("unregisterModule") /\ last'.path = last.path /\ Returned )
        => /\ _modules' = last.before._modules
           /\ state' = last.before.state
           /\ _mutations' = last.before._mutations
           /\ _actions' = last.before._actions
           /\ _wrappedGetters' = last.before._wrappedGetters
           /\ _modulesNamespaceMap' = last.before._modulesNamespaceMap ]_vars

(***************************************************************************)
(* C27.  A registerModule(P, cfg) call that fails the validation of cfg or *)
(* of a configuration nested in cfg changes nothing: the module tree, the  *)
(* state and the tables are what they were, and no node of cfg is in the   *)
(* tree.                                                                   *)
(***************************************************************************)
\* some handler map of raw, or of a configuration nested in raw, holds a
\* value that is not a function
RECURSIVE FailsValidation(_)
FailsValidation(raw) ==
    \/ \E kind \in {"getters", "mutations", "actions"} :
           \E i \in 1..Len(raw[kind].ents) : raw[kind].ents[i].fn = NotAFunction
    \/ \E i \in 1..Len(raw.modules) : FailsValidation(raw.modules[i].raw)

C27_FailedRegistrationChangesNothing ==
    [][ ( /\ Did("registerModule") /\ last'.payload \in 1..Len(InvalidConfigAt)
          /\ FailsValidation(InvalidConfigAt[last'.payload]) )
        => /\ last'.threw
           /\ UNCHANGED << _modules, state, _mutations, _actions, _wrappedGetters,
                           _modulesNamespaceMap >> ]_vars
====
